---- MODULE Spec2Model ----
(***************************************************************************)
(* cleanco/clean.py: removal of legal-entity terms from organisation       *)
(* names (custom_basename) and the process-wide automaton cache it uses.   *)
(*                                                                         *)
(* A Python str is modelled as a sequence of characters, each character a  *)
(* one-element TLA+ string ("U+0301" stands for the combining acute        *)
(* accent, one code point).  Offsets into a str are 0-based as in the      *)
(* code; At(s, i) reads s[i].                                              *)
(***************************************************************************)
EXTENDS Integers, Sequences, FiniteSets, TLC

\* ------------------------------------------------------------------ bounds
\* Longest name of the exhaustively enumerated inputs.
MaxLen == 4

\* Number of threads that call custom_basename concurrently.
NumThreads == 2

\* ------------------------------------------------------------- characters
UpperSeq ==
    << "A", "B", "C", "D", "E", "F", "G", "H", "I", "J", "K", "L", "M",
       "N", "O", "P", "Q", "R", "S", "T", "U", "V", "W", "X", "Y", "Z" >>

LowerSeq ==
    << "a", "b", "c", "d", "e", "f", "g", "h", "i", "j", "k", "l", "m",
       "n", "o", "p", "q", "r", "s", "t", "u", "v", "w", "x", "y", "z" >>

UpperSet == { UpperSeq[i] : i \in 1..26 }

LowerSet == { LowerSeq[i] : i \in 1..26 }

\* Characters with a non-zero canonical combining class (unicodedata.combining).
CombiningSet == { "U+0301" }

\* str.isalnum() of one character.
IsAlnum(c) == c \in UpperSet \cup LowerSet

\* The characters str.split() separates on.
IsSpace(c) == c = " "

At(s, i) == s[i + 1]

Max(a, b) == IF a >= b THEN a ELSE b

Min(a, b) == IF a <= b THEN a ELSE b

\* str.casefold() of one character, as a str: upper case letters go to lower case.
CasefoldTable ==
    [ c \in UpperSet |-> << LowerSeq[CHOOSE i \in 1..26 : UpperSeq[i] = c] >> ]

CasefoldChar(c) == IF c \in UpperSet THEN CasefoldTable[c] ELSE << c >>

RECURSIVE Casefold(_)
Casefold(t) ==
    IF t = << >> THEN << >> ELSE CasefoldChar(Head(t)) \o Casefold(Tail(t))

\* TRANSLATION_TABLE: every combining character from 0x80 up maps to ''.
Translate(t) == SelectSeq(t, LAMBDA c : c \notin CombiningSet)

remove_accents_fast(text) == Translate(Casefold(text))

strip_punct(t) == SelectSeq(t, LAMBDA c : c \notin { ".", ",", "-" })

RECURSIVE strip_tail(_)
strip_tail(name) ==
    IF name /= << >> /\ ~IsAlnum(name[Len(name)]) /\ name[Len(name)] /= "."
    THEN strip_tail(SubSeq(name, 1, Len(name) - 1))
    ELSE name

normalized(text) == remove_accents_fast(text)

\* str.split(): the maximal runs of non-whitespace characters, in order.
RECURSIVE SplitFrom(_, _, _)
SplitFrom(s, i, cur) ==
    IF i > Len(s)
    THEN IF cur = << >> THEN << >> ELSE << cur >>
    ELSE IF IsSpace(s[i])
         THEN IF cur = << >> THEN SplitFrom(s, i + 1, << >>)
              ELSE << cur >> \o SplitFrom(s, i + 1, << >>)
         ELSE SplitFrom(s, i + 1, Append(cur, s[i]))

Split(s) == SplitFrom(s, 1, << >>)

\* " ".join(parts)
RECURSIVE Join(_)
Join(parts) ==
    IF parts = << >> THEN << >>
    ELSE IF Len(parts) = 1 THEN parts[1]
    ELSE parts[1] \o << " " >> \o Join(Tail(parts))

\* ------------------------------------------------------------ term catalog
\* ord() of the characters that occur in names and terms.
CodePoint(c) ==
    IF c = " " THEN 32
    ELSE IF c = "&" THEN 38
    ELSE IF c = "," THEN 44
    ELSE IF c = "-" THEN 45
    ELSE IF c = "." THEN 46
    ELSE IF c \in UpperSet THEN 64 + (CHOOSE i \in 1..26 : UpperSeq[i] = c)
    ELSE IF c \in LowerSet THEN 96 + (CHOOSE i \in 1..26 : LowerSeq[i] = c)
    ELSE 769

\* s < t for two str (code point order).
RECURSIVE StrLess(_, _)
StrLess(s, t) ==
    IF t = << >> THEN FALSE
    ELSE IF s = << >> THEN TRUE
    ELSE IF Head(s) = Head(t) THEN StrLess(Tail(s), Tail(t))
    ELSE CodePoint(Head(s)) < CodePoint(Head(t))

\* p < q for two lists of str.
RECURSIVE ListLess(_, _)
ListLess(p, q) ==
    IF q = << >> THEN FALSE
    ELSE IF p = << >> THEN TRUE
    ELSE IF Head(p) = Head(q) THEN ListLess(Tail(p), Tail(q))
    ELSE StrLess(Head(p), Head(q))

\* The sort key of prepare_default_terms: (-len(x), x).
KeyLess(x, y) == Len(x) > Len(y) \/ (Len(x) = Len(y) /\ ListLess(x, y))

\* remove_accents on the modelled characters: casefold, then drop the
\* combining marks (category Mn) of the decomposed form.
remove_accents(t) == SelectSeq(Casefold(t), LAMBDA c : c \notin CombiningSet)

\* One term of normalize_terms, split into its tokens.
TermParts(t) == Split(strip_punct(remove_accents(t)))

\* sorted(ntermparts, key=...) over the terms of a set.
RECURSIVE SortedParts(_)
SortedParts(raw) ==
    IF raw = {} THEN << >>
    ELSE LET t == CHOOSE x \in raw :
                    \A y \in raw : ~KeyLess(TermParts(y), TermParts(x))
         IN  << TermParts(t) >> \o SortedParts(raw \ { t })

\* prepare_default_terms applied to a set of raw terms: [(len(tp), tp), ...].
prepare_terms(raw) ==
    LET sntermparts == SortedParts(raw)
    IN  [ i \in 1..Len(sntermparts) |-> << Len(sntermparts[i]), sntermparts[i] >> ]

\* -------------------------------------------------------------- automaton
\* Seeded fault: the tokens of a term are joined without the separating space.
RECURSIVE Concat(_)
Concat(parts) == IF parts = << >> THEN << >> ELSE Head(parts) \o Concat(Tail(parts))

AutomatonWords_unspaced(terms) ==
    { << i - 1, Concat(terms[i][2]) >> : i \in 1..Len(terms) }

\* The words of build_automaton(terms): each joined term with the value
\* (idx, term) of its last add_word.
AutomatonWords(terms) ==
    { << i - 1, Join(terms[i][2]) >> : i \in
        { j \in 1..Len(terms) :
            \A k \in (j + 1)..Len(terms) : Join(terms[k][2]) /= Join(terms[j][2]) } }

\* An automaton object: id tells one built object from another.  id 0 is None.
None == [ id |-> 0, words |-> {} ]

build_automaton(terms, id) == [ id |-> id, words |-> AutomatonWords(terms) ]

\* automaton.iter(nname): (end_idx, (priority_idx, match)) for every occurrence
\* of every word in nname.
Iter(a, nname) ==
    { << s + Len(w[2]) - 1, w >> : << s, w >> \in
        { x \in (0..(Len(nname) - 1)) \X a.words :
            /\ Len(x[2][2]) > 0
            /\ x[1] + Len(x[2][2]) <= Len(nname)
            /\ SubSeq(nname, x[1] + 1, x[1] + Len(x[2][2])) = x[2][2] } }

\* ---------------------------------------------------------- boundary filter
\* Seeded fault: the character before the match is not looked at.
cond_1_unbounded(nname, start_idx) == TRUE

\* Line 166.
cond_1(nname, start_idx) ==
    (~IsAlnum(At(nname, Max(0, start_idx - 1)))) \/ (start_idx = 0)

\* Seeded fault: the character after the match is not looked at.
cond_2_unbounded(nname, start_idx, end_idx, suffix, prefix, middle) ==
    IF middle
    THEN /\ (~prefix) => (start_idx /= 0)
         /\ (~suffix) => (end_idx /= Len(nname) - 1)
    ELSE \/ (start_idx = 0) /\ prefix
         \/ (end_idx = Len(nname) - 1) /\ suffix

\* Seeded fault: with middle disabled the anchors are not gated by the flags.
cond_2_ungated(nname, start_idx, end_idx, suffix, prefix, middle) ==
    /\ \/ end_idx = Len(nname) - 1
       \/ ~IsAlnum(At(nname, Min(Len(nname) - 1, end_idx + 1)))
    /\ IF middle
       THEN /\ (~prefix) => (start_idx /= 0)
            /\ (~suffix) => (end_idx /= Len(nname) - 1)
       ELSE \/ start_idx = 0
            \/ end_idx = Len(nname) - 1

\* Seeded fault: with middle enabled only interior matches pass.
cond_2_interior(nname, start_idx, end_idx, suffix, prefix, middle) ==
    /\ \/ end_idx = Len(nname) - 1
       \/ ~IsAlnum(At(nname, Min(Len(nname) - 1, end_idx + 1)))
    /\ IF middle
       THEN /\ start_idx /= 0
            /\ end_idx /= Len(nname) - 1
       ELSE \/ (start_idx = 0) /\ prefix
            \/ (end_idx = Len(nname) - 1) /\ suffix

\* Lines 167-175.
cond_2(nname, start_idx, end_idx, suffix, prefix, middle) ==
    /\ \/ end_idx = Len(nname) - 1
       \/ ~IsAlnum(At(nname, Min(Len(nname) - 1, end_idx + 1)))
    /\ IF middle
       THEN /\ (~prefix) => (start_idx /= 0)
            /\ (~suffix) => (end_idx /= Len(nname) - 1)
       ELSE \/ (start_idx = 0) /\ prefix
            \/ (end_idx = Len(nname) - 1) /\ suffix

\* The heap after the loop of lines 163-178:
\* (priority_idx, (start_idx, end_idx, match)) of every accepted occurrence.
Accepted(found, nname, suffix, prefix, middle) ==
    { << o[2][1], << o[1] - Len(o[2][2]) + 1, o[1], o[2][2] >> >> : o \in
        { x \in found :
            LET start_idx == x[1] - Len(x[2][2]) + 1
            IN  /\ cond_1(nname, start_idx)
                /\ cond_2(nname, start_idx, x[1], suffix, prefix, middle) } }

\* heapq.heappop: the least entry, by priority_idx and then start_idx.
HeapTop(heap) ==
    CHOOSE m \in heap :
        \A o \in heap :
            \/ m[1] < o[1]
            \/ m[1] = o[1] /\ m[2][1] <= o[2][1]

\* Lines 188-190: the span of a match becomes dots, its spaces stay.
Overwrite(char_array, start_idx, end_idx, match) ==
    [ i \in 1..Len(char_array) |->
        IF i - 1 >= start_idx /\ i - 1 <= end_idx
        THEN IF match[i - start_idx] /= " " THEN "." ELSE " "
        ELSE char_array[i] ]

\* Lines 184-190: pop every match and overwrite its span.
RECURSIVE MarkAll(_, _)
MarkAll(char_array, heap) ==
    IF heap = {} THEN char_array
    ELSE LET m == HeapTop(heap)
         IN  MarkAll(Overwrite(char_array, m[2][1], m[2][2], m[2][3]), heap \ { m })

\* ------------------------------------------------------------ reconstruction
\* Lines 151-158: (idx, tok) of the tokens that strip_punct empties.
RECURSIVE NonAlphanumToks(_, _)
NonAlphanumToks(nparts, idx) ==
    IF idx >= Len(nparts) THEN << >>
    ELSE IF strip_punct(nparts[idx + 1]) = << >>
         THEN << << idx, nparts[idx + 1] >> >> \o NonAlphanumToks(nparts, idx + 1)
         ELSE NonAlphanumToks(nparts, idx + 1)

\* list.insert(idx, x)
Insert(tokens, idx, x) ==
    LET k == Min(idx, Len(tokens))
    IN  SubSeq(tokens, 1, k) \o << x >> \o SubSeq(tokens, k + 1, Len(tokens))

\* Lines 193-194.
RECURSIVE InsertAll(_, _)
InsertAll(tokens, toks) ==
    IF toks = << >> THEN tokens
    ELSE InsertAll(Insert(tokens, Head(toks)[1], Head(toks)[2]), Tail(toks))

\* Line 198: the token is something else than dots.
Survives(x) == Len(SelectSeq(x, LAMBDA c : c /= ".")) /= 0

\* Lines 196-199: the indexes idx whose nparts[idx] goes to final.
KeptIndexes(tokens) == { idx \in 0..(Len(tokens) - 1) : Survives(tokens[idx + 1]) }

RECURSIVE Final(_, _, _)
Final(tokens, nparts, idx) ==
    IF idx >= Len(tokens) THEN << >>
    ELSE IF idx \in KeptIndexes(tokens)
         THEN << nparts[idx + 1] >> \o Final(tokens, nparts, idx + 1)
         ELSE Final(tokens, nparts, idx + 1)

\* ------------------------------------------------------------ custom_basename
\* Lines 148-201 with the automaton `a` that line 163 reads: the locals at the
\* return statement.  early tells the return of line 181 from that of line 201.
custom_basename_body(name_arg, a, suffix, prefix, middle) ==
    LET name     == strip_tail(name_arg)
        nparts   == Split(name)
        non_alphanum_toks == NonAlphanumToks(nparts, 0)
        nname    == normalized(strip_punct(name))
        found    == Iter(a, nname)
        matches  == Accepted(found, nname, suffix, prefix, middle)
        char_array == MarkAll(nname, matches)
        tokens   == InsertAll(Split(char_array), non_alphanum_toks)
        final    == Final(tokens, nparts, 0)
    IN  IF matches = {}
        THEN [ name |-> name, nparts |-> nparts, nname |-> nname, found |-> found,
               matches |-> matches, early |-> TRUE, tokens |-> << >>,
               kept |-> 0..(Len(nparts) - 1), result |-> name ]
        ELSE [ name |-> name, nparts |-> nparts, nname |-> nname, found |-> found,
               matches |-> matches, early |-> FALSE, tokens |-> tokens,
               kept |-> KeptIndexes(tokens), result |-> strip_tail(Join(final)) ]

\* ------------------------------------------------------------------ inputs
\* The characters of the exhaustively enumerated names: two letters, an upper
\* case letter, whitespace, a stripped and an unstripped punctuation mark,
\* and a combining mark.
Alphabet == { "a", "b", "B", " ", ".", "&", "U+0301" }

\* Names of the specification's examples.
Examples ==
    { << "A", "c", "m", "e", " ", "I", "n", "c" >>,
      << "I", "n", "c", "o", "r", "p", "o", "r", "a", "t", "e", "d" >>,
      << "A", "c", "m", "e", " ", "H", "o", "l", "d", "i", "n", "g", " ",
         "C", "o", "m", "p", "a", "n", "y" >>,
      << "L", "t", "d", " ", "A", "c", "m", "e", " ", "L", "t", "d" >>,
      << "A", "c", "m", "e", " ", "&", " ", "S", "o", "n", "s", ",", " ",
         "L", "t", "d", "." >>,
      << "A", "c", "m", "e", " ", "-", " ", "L", "t", "d" >> }

Names == UNION { [ 1..k -> Alphabet ] : k \in 0..MaxLen } \cup Examples

\* Raw term lists, as termdata would give them.
RawTerms ==
    { << "b" >>, << "a", " ", "b" >>,
      << "L", "t", "d", "." >>, << "i", "n", "c" >>,
      << "c", "o", "m", "p", "a", "n", "y" >>,
      << "h", "o", "l", "d", "i", "n", "g", " ", "c", "o", "m", "p", "a", "n", "y" >> }

Catalogs == { prepare_terms(RawTerms) }

\* ------------------------------------------------------------------- state
VARIABLES
    global_automaton,   \* the module global of line 205
    builds,             \* number of build_automaton calls so far
    call,               \* arguments of the latest call of custom_basename
    ret,                \* its locals at the return
    prev,               \* the locals at the return of the call it repeats
    round,              \* "none", "first", "again", "middle" or "later"
    threads             \* per thread: the place in custom_basename and its locals

vars == << global_automaton, builds, call, ret, prev, round, threads >>

Threads == 1..NumThreads

NoCall == [ name |-> << >>, terms |-> << >>,
            suffix |-> FALSE, prefix |-> FALSE, middle |-> FALSE ]

NoReturn == [ name |-> << >>, nparts |-> << >>, nname |-> << >>, found |-> {},
              matches |-> {}, early |-> TRUE, tokens |-> << >>, kept |-> {},
              result |-> << >> ]

Idle == [ pc |-> "idle", name |-> << >>, terms |-> << >>, suffix |-> FALSE,
          prefix |-> FALSE, middle |-> FALSE, result |-> << >> ]

\* The module has been imported: line 205 has run, no call has been made.
Init ==
    /\ global_automaton = None
    /\ builds = 0
    /\ call = NoCall
    /\ ret = NoReturn
    /\ prev = NoReturn
    /\ round = "none"
    /\ threads = [ t \in Threads |-> Idle ]

\* One call custom_basename(name, terms, suffix, prefix, middle) that runs
\* from line 144 to its return with no other call in between.
custom_basename(name, terms, suffix, prefix, middle) ==
    LET a == IF global_automaton = None
             THEN build_automaton(terms, builds + 1)
             ELSE global_automaton
    IN  /\ global_automaton' = a
        /\ builds' = IF global_automaton = None THEN builds + 1 ELSE builds
        /\ call' = [ name |-> name, terms |-> terms,
                     suffix |-> suffix, prefix |-> prefix, middle |-> middle ]
        /\ ret' = custom_basename_body(name, a, suffix, prefix, middle)

\* The first call of the process.
First ==
    /\ round = "none"
    /\ \E name \in Names, terms \in Catalogs, suffix, prefix, middle \in BOOLEAN :
          custom_basename(name, terms, suffix, prefix, middle)
    /\ round' = "first"
    /\ UNCHANGED << prev, threads >>

\* The result of the first call is cleaned again, with the same arguments.
Again ==
    /\ round = "first"
    /\ custom_basename(ret.result, call.terms, call.suffix, call.prefix, call.middle)
    /\ prev' = ret
    /\ round' = "again"
    /\ UNCHANGED threads

\* The name of the first call is cleaned again with middle enabled.
WithMiddle ==
    /\ round = "first"
    /\ ~call.middle
    /\ custom_basename(call.name, call.terms, call.suffix, call.prefix, TRUE)
    /\ prev' = ret
    /\ round' = "middle"
    /\ UNCHANGED threads

Next == First \/ Again \/ WithMiddle

Spec == Init /\ [][Next]_vars

\* --------------------------------------------- a sequence of requests
SeqNames ==
    { << "A", "c", "m", "e", " ", "L", "t", "d" >>,
      << "A", "c", "m", "e", " ", "I", "n", "c" >>,
      << "A", "c", "m", "e" >> }

SeqCatalogs ==
    { << >>,
      prepare_terms({ << "l", "t", "d" >> }),
      prepare_terms({ << "i", "n", "c" >>, << "l", "t", "d" >> }) }

\* Any call, after any earlier calls of the process.
Request ==
    /\ \E name \in SeqNames, terms \in SeqCatalogs, suffix, prefix, middle \in BOOLEAN :
          custom_basename(name, terms, suffix, prefix, middle)
    /\ round' = IF round = "none" THEN "first" ELSE "later"
    /\ UNCHANGED << prev, threads >>

SeqNext == Request

SeqSpec == Init /\ [][SeqNext]_vars

\* ------------------------------------------------ concurrent requests
\* Threads of one process call custom_basename; the interpreter may switch
\* threads between the test of line 145 and the assignment of line 146.
ThreadNames ==
    { << "A", "c", "m", "e", " ", "L", "t", "d" >>,
      << "A", "c", "m", "e", " ", "I", "n", "c" >> }

ThreadCatalogs ==
    { prepare_terms({ << "l", "t", "d" >> }),
      prepare_terms({ << "i", "n", "c" >>, << "l", "t", "d" >> }) }

\* A thread enters custom_basename.
Call(t) ==
    /\ threads[t].pc = "idle"
    /\ \E name \in ThreadNames, terms \in ThreadCatalogs, middle \in BOOLEAN :
          threads' = [ threads EXCEPT ![t] =
              [ pc |-> "l145", name |-> name, terms |-> terms, suffix |-> TRUE,
                prefix |-> FALSE, middle |-> middle, result |-> << >> ] ]
    /\ UNCHANGED << global_automaton, builds, call, ret, prev, round >>

\* Line 145: if global_automaton is None.
Test(t) ==
    /\ threads[t].pc = "l145"
    /\ threads' = [ threads EXCEPT ![t].pc =
                      IF global_automaton = None THEN "l146" ELSE "l148" ]
    /\ UNCHANGED << global_automaton, builds, call, ret, prev, round >>

\* Line 146: global_automaton = build_automaton(terms).
Build(t) ==
    /\ threads[t].pc = "l146"
    /\ builds' = builds + 1
    /\ global_automaton' = build_automaton(threads[t].terms, builds + 1)
    /\ threads' = [ threads EXCEPT ![t].pc = "l148" ]
    /\ UNCHANGED << call, ret, prev, round >>

\* Lines 148-201, with the automaton the global holds at line 163.
Run(t) ==
    /\ threads[t].pc = "l148"
    /\ threads' = [ threads EXCEPT
          ![t].pc = "done",
          ![t].result = custom_basename_body(threads[t].name, global_automaton,
                            threads[t].suffix, threads[t].prefix,
                            threads[t].middle).result ]
    /\ UNCHANGED << global_automaton, builds, call, ret, prev, round >>

\* The caller takes the result; the thread may call again.
Return(t) ==
    /\ threads[t].pc = "done"
    /\ threads' = [ threads EXCEPT ![t] = Idle ]
    /\ UNCHANGED << global_automaton, builds, call, ret, prev, round >>

ThreadNext == \E t \in Threads : Call(t) \/ Test(t) \/ Build(t) \/ Run(t) \/ Return(t)

ThreadSpec == Init /\ [][ThreadNext]_vars

\* ================================================================== claims
\* Names used by the properties below.
AcmeInc == << "A", "c", "m", "e", " ", "I", "n", "c" >>

Acme == << "A", "c", "m", "e" >>

Incorporated == << "I", "n", "c", "o", "r", "p", "o", "r", "a", "t", "e", "d" >>

AcmeHoldingCompany ==
    << "A", "c", "m", "e", " ", "H", "o", "l", "d", "i", "n", "g", " ",
       "C", "o", "m", "p", "a", "n", "y" >>

LtdAcmeLtd == << "L", "t", "d", " ", "A", "c", "m", "e", " ", "L", "t", "d" >>

AcmeLtd == << "A", "c", "m", "e", " ", "L", "t", "d" >>

Returned == round /= "none"

\* The catalog of the call has the term w (its tokens joined by spaces).
HasTerm(w) == \E i \in 1..Len(call.terms) : Join(call.terms[i][2]) = w

Inc == << "i", "n", "c" >>

Ltd == << "l", "t", "d" >>

\* The character before / after an occurrence is the edge of the text or is
\* not alphanumeric.
LeftBoundary(nname, start_idx) ==
    start_idx = 0 \/ ~IsAlnum(At(nname, start_idx - 1))

RightBoundary(nname, end_idx) ==
    end_idx = Len(nname) - 1 \/ ~IsAlnum(At(nname, end_idx + 1))

\* An occurrence (end_idx, (priority_idx, match)) as the heap entry it makes.
Entry(o) == << o[2][1], << o[1] - Len(o[2][2]) + 1, o[1], o[2][2] >> >>

StartOf(o) == o[1] - Len(o[2][2]) + 1

\* The anchoring of the specification's right_ok with middle disabled.
Anchored(nname, start_idx, end_idx, prefix, suffix) ==
    \/ start_idx = 0 /\ prefix
    \/ end_idx = Len(nname) - 1 /\ suffix

\* C1 (as claimed): cleaning the result of a cleaning again, with the same
\* catalog and flags, returns the same string.
C1_Idempotent == (round = "again") => (ret.result = prev.result)

C4_FlagGating ==
    (Returned /\ ~call.middle) =>
        /\ \A m \in ret.matches :
              Anchored(ret.nname, m[2][1], m[2][2], call.prefix, call.suffix)
        /\ (~call.prefix /\ ~call.suffix) =>
              (ret.matches = {} /\ ret.result = strip_tail(call.name))
        /\ (call.name = LtdAcmeLtd /\ HasTerm(Ltd) /\ call.prefix /\ ~call.suffix) =>
              (ret.result = AcmeLtd)

\* C4 witness: "Ltd Acme Ltd" under prefix alone lost its leading term only.
C4_Witness ==
    /\ round = "first"
    /\ call.name = LtdAcmeLtd
    /\ call.prefix /\ ~call.suffix /\ ~call.middle
    /\ Cardinality(ret.found) = 2
    /\ Cardinality(ret.matches) = 1
    /\ ret.result = AcmeLtd

\* C8 (as claimed): with middle disabled an occurrence is accepted if and only
\* if left_ok and right_ok, right_ok being the anchoring alone.
C8_AcceptanceAsStated ==
    (Returned /\ ~call.middle) =>
        \A o \in ret.found :
            (Entry(o) \in ret.matches) <=>
                /\ LeftBoundary(ret.nname, StartOf(o))
                /\ Anchored(ret.nname, StartOf(o), o[1], call.prefix, call.suffix)

\* C8 (amended): with middle disabled an occurrence is accepted if and only if
\* left_ok, the character after it is the edge of the text or not
\* alphanumeric, and it is anchored at an end whose flag is enabled.
C8_Acceptance ==
    (Returned /\ ~call.middle) =>
        \A o \in ret.found :
            (Entry(o) \in ret.matches) <=>
                /\ LeftBoundary(ret.nname, StartOf(o))
                /\ RightBoundary(ret.nname, o[1])
                /\ Anchored(ret.nname, StartOf(o), o[1], call.prefix, call.suffix)

\* C8 witness: an occurrence at offset 0 under prefix, glued to the next
\* character, is rejected.
C8_Witness ==
    /\ Returned /\ ~call.middle /\ call.prefix
    /\ \E o \in ret.found :
          /\ StartOf(o) = 0
          /\ ~RightBoundary(ret.nname, o[1])
          /\ Entry(o) \notin ret.matches

\* C10 (as claimed): enabling middle rejects no occurrence that is accepted
\* with middle disabled, and keeps no token that is dropped with it disabled.
C10_MiddleMonotone ==
    (round = "middle") =>
        /\ prev.matches \subseteq ret.matches
        /\ ret.kept \subseteq prev.kept

\* An accepted match that spans the whole normalized text.
SpansText(m, nname) == m[2][1] = 0 /\ m[2][2] = Len(nname) - 1

\* C10 (amended): enabling middle rejects an occurrence accepted with middle
\* disabled only when it spans the whole normalized text and exactly one of
\* prefix and suffix is enabled; when no accepted occurrence is of that kind,
\* the tokens kept with middle enabled are among those kept with it disabled.
C10_MiddleMonotoneButWhole ==
    (round = "middle") =>
        /\ \A m \in prev.matches :
              \/ m \in ret.matches
              \/ SpansText(m, prev.nname) /\ call.prefix /= call.suffix
        /\ (\A m \in prev.matches :
               ~(SpansText(m, prev.nname) /\ call.prefix /= call.suffix))
              => (ret.kept \subseteq prev.kept)

\* C10 witness: middle enabled accepts what was accepted before and more.
C10_Witness ==
    /\ round = "middle"
    /\ prev.matches /= {}
    /\ prev.matches \subseteq ret.matches
    /\ prev.matches /= ret.matches
    /\ ret.kept /= prev.kept

\* The pairs (L, S) of terms of a catalog: L of several tokens, S shorter, the
\* tokens of S the last tokens of L.
SuffixPairs(terms) ==
    { << terms[i][2], terms[j][2] >> : << i, j >> \in
        { x \in (1..Len(terms)) \X (1..Len(terms)) :
            LET L == terms[x[1]][2]
                S == terms[x[2]][2]
            IN  /\ Len(L) > 1
                /\ Len(S) >= 1
                /\ Len(S) < Len(L)
                /\ S = SubSeq(L, Len(L) - Len(S) + 1, Len(L)) } }

EndsWith(s, w) ==
    Len(s) >= Len(w) /\ SubSeq(s, Len(s) - Len(w) + 1, Len(s)) = w

SuffixOnly == call.suffix /\ ~call.prefix /\ ~call.middle

\* C3 (as claimed): under suffix alone, a name that ends with the tokens of L,
\* single spaces between them and a word boundary before them, loses every one
\* of its last Len(L) tokens.
C3_LongerTermAsStated ==
    (Returned /\ SuffixOnly) =>
        \A p \in SuffixPairs(call.terms) :
            LET w == Join(p[1])
            IN  (EndsWith(ret.nname, w)
                    /\ LeftBoundary(ret.nname, Len(ret.nname) - Len(w)))
                => /\ ~ret.early
                   /\ \A idx \in ret.kept : idx < Len(ret.nparts) - Len(p[1])

\* C3 (amended): the same, for a name in which whitespace or the start of the
\* text comes before the tokens of L; "Acme Holding Company" gives "Acme".
C3_LongerTerm ==
    (Returned /\ SuffixOnly) =>
        /\ \A p \in SuffixPairs(call.terms) :
              LET w == Join(p[1])
                  start_idx == Len(ret.nname) - Len(w)
              IN  (EndsWith(ret.nname, w)
                      /\ (start_idx = 0 \/ IsSpace(At(ret.nname, start_idx - 1))))
                  => /\ ~ret.early
                     /\ \A idx \in ret.kept : idx < Len(ret.nparts) - Len(p[1])
        /\ (call.name = AcmeHoldingCompany /\ SuffixPairs(call.terms) /= {}
               /\ \E p \in SuffixPairs(call.terms) : EndsWith(ret.nname, Join(p[1])))
              => (ret.result = Acme)

\* C3 witness: "Acme Holding Company" lost both tokens of the longer term.
C3_Witness ==
    /\ Returned /\ SuffixOnly
    /\ call.name = AcmeHoldingCompany
    /\ SuffixPairs(call.terms) /= {}
    /\ Cardinality(ret.matches) = 2
    /\ ret.result = Acme

\* A token without any alphanumeric character.
NoAlnum(tok) == \A i \in 1..Len(tok) : ~IsAlnum(tok[i])

\* C7 (as claimed): every token of the name that has no alphanumeric character
\* goes to the output (the final trim aside), whether terms are removed or not.
C7_PunctuationKept ==
    Returned =>
        \A idx \in 0..(Len(ret.nparts) - 1) :
            NoAlnum(ret.nparts[idx + 1]) => (idx \in ret.kept)

\* (start, end) offsets of the whitespace-separated tokens of s, in order.
RECURSIVE SpansFrom(_, _, _)
SpansFrom(s, i, start) ==
    IF i > Len(s)
    THEN IF start < 0 THEN << >> ELSE << << start, Len(s) - 1 >> >>
    ELSE IF IsSpace(s[i])
         THEN IF start < 0 THEN SpansFrom(s, i + 1, -1)
              ELSE << << start, i - 2 >> >> \o SpansFrom(s, i + 1, -1)
         ELSE SpansFrom(s, i + 1, IF start < 0 THEN i - 1 ELSE start)

TokenSpans(s) == SpansFrom(s, 1, -1)

\* Every offset of the span lies in an accepted match.
Covered(span, matches) ==
    \A q \in span[1]..span[2] :
        \E m \in matches : m[2][1] <= q /\ q <= m[2][2]

\* The character c of a normalized token, as the marked buffer may show it.
MarkedForm(tok, ntok) ==
    /\ Len(tok) = Len(ntok)
    /\ \A i \in 1..Len(tok) : tok[i] = ntok[i] \/ tok[i] = "."

\* The number of tokens before idx that are not set aside.
Rank(nparts, idx) ==
    Cardinality({ j \in 0..(idx - 1) : strip_punct(nparts[j + 1]) /= << >> })

\* C9 (as claimed): when a match is accepted, the token list after the
\* reinsertion is as long as the list of the original tokens, its token i is
\* original token i (set aside) or its normalized form with marks, and a
\* token that was not set aside is dropped exactly when its normalized form
\* is covered by the accepted matches.
C9_TokenAlignment ==
    (Returned /\ ~ret.early) =>
        /\ Len(ret.tokens) = Len(ret.nparts)
        /\ Len(TokenSpans(ret.nname)) =
              Cardinality({ j \in 1..Len(ret.nparts) : strip_punct(ret.nparts[j]) /= << >> })
        /\ \A idx \in 0..(Len(ret.nparts) - 1) :
              LET tok == ret.nparts[idx + 1]
              IN  IF strip_punct(tok) = << >>
                  THEN ret.tokens[idx + 1] = tok
                  ELSE /\ MarkedForm(ret.tokens[idx + 1], normalized(strip_punct(tok)))
                       /\ (idx \notin ret.kept) <=>
                             Covered(TokenSpans(ret.nname)[Rank(ret.nparts, idx) + 1],
                                     ret.matches)

\* C5 (as claimed): a request made with an empty catalog returns its name with
\* only the tail trimmed, whatever the earlier requests of the process were.
C5_EmptyCatalog ==
    (Returned /\ call.terms = << >>) => (ret.result = strip_tail(call.name))

\* C6 (as claimed): the automaton is built and assigned at most once, and once
\* assigned the global is never assigned again.
C6_BuiltOnce ==
    [][ /\ builds' <= 1
        /\ (global_automaton /= None) => (global_automaton' = global_automaton) ]_vars

====
